---- MODULE Spec2Model ----
(***************************************************************************)
(* A model of memdb: a single-file, memory-mapped, copy-on-write key/value *)
(* store.  The file is an array of pages; pages 0 and 1 hold the two meta  *)
(* slots; a writable transaction holds the file mutex, a read-only one the *)
(* remap lock in read mode.                                                *)
(*                                                                         *)
(* The specifications share the variables:                                 *)
(*   SpecMeta  the database is opened on a file whose two meta slots hold  *)
(*             arbitrary contents, or on a path that does not exist        *)
(*             (Inner::open, Inner::meta, init_file);                      *)
(*   Spec      two threads run transactions, with I/O failures in commit,  *)
(*             against a handle opened on a file init_file has written;    *)
(*   SpecConc  three threads run transactions without I/O failures;        *)
(*   SpecFair  two threads, a failing flush, fair acquisition of the file  *)
(*             mutex;                                                      *)
(*   SpecHash  a hashed meta record has one field changed;                 *)
(*   SpecGrow  two threads, with the failures of Inner::resize;            *)
(*   SpecOpen  two openers of one path, through DBOpenOptions or Config;   *)
(*   SpecTree  the operations of a bucket on a tree of small nodes;        *)
(*   SpecLock  three threads in Tx::new and Inner::resize, with fairness;  *)
(*   SpecLoad  open on a file with a freelist page for each meta record.   *)
(***************************************************************************)
EXTENDS Integers, Sequences, FiniteSets, TLC

\* ------------------------------------------------------------------------
\* Bounds of the model
\* ------------------------------------------------------------------------
\* Highest transaction id a writer may take.
MaxTxId == 3
\* Highest file length, in pages, a resize may extend the file to.
MaxPages == 8
\* Pages added to the file by one growth step.
GrowPages == 2

\* ------------------------------------------------------------------------
\* Program constants
\* ------------------------------------------------------------------------
DATABASE_INTEGRITY_CODE == 11259375
VERSION == 1
TYPE_BRANCH == 1
TYPE_LEAF == 2
TYPE_META == 3
TYPE_FREELIST == 4
\* The runtime page size (the operating system's) and another legal one.
PageSize == 4096
OtherPageSize == 1024
\* init_file's layout: the freelist page, the root leaf, the pages in use.
InitFreelistPage == 2
InitRootPage == 3
InitNumPages == 4

TwoThreads == {"t1", "t2"}
ThreeThreads == {"t1", "t2", "t3"}
Keys == {"a"}
Values == {"1", "2"}
NoThread == "none"
NoVal == "missing"

VARIABLES
    file,          \* the file: page index -> page
    data,          \* Inner.data: the active mapping
    dataLock,      \* owner of the Inner.data mutex
    mmap_lock,     \* Inner.mmap_lock: the remap RwLock
    fileLock,      \* owner of the Inner.file mutex
    freelist,      \* Inner.freelist: the handle's canonical freelist
    open_ro_txs,   \* Inner.open_ro_txs: ids of the open read-only transactions
    pc,            \* each thread's position
    tx,            \* each thread's transaction (TxInner)
    opened,        \* outcome of the open call
    committed,     \* the generation of the last commit that succeeded
    flock,         \* holder of the exclusive lock on the database file
    opens,         \* each opener's call of open: options, position, outcome
    bucket,        \* the tree of the root bucket of a writable transaction
    ret            \* the outcome of the last operation on the bucket

\* The threads that use the database handle.
Threads == DOMAIN pc

vars == <<file, data, dataLock, mmap_lock, fileLock, freelist, open_ro_txs,
          pc, tx, opened, committed, flock, opens, bucket, ret>>

\* No call of open is modelled.
NoOpens == <<>>

\* No bucket tree is modelled, and no operation on it has returned.
NoBucket == <<>>
NoRet == [op |-> "none", key |-> <<>>, result |-> "none"]

\* ------------------------------------------------------------------------
\* Meta records (meta.rs)
\* ------------------------------------------------------------------------
ZeroHash == <<>>

\* bytes with next_int of the root bucket left out.
bytes_without_next_int(m) ==
    <<m.meta_page, m.integrity_code, m.version, m.pagesize, m.root_page,
      m.num_pages, m.freelist_page, m.tx_id>>

\* bytes with only the four leading fields serialized.
bytes_header(m) ==
    <<m.meta_page, m.integrity_code, m.version, m.pagesize>>

\* Meta::bytes: the fields in the fixed order they are serialized in.
bytes(m) ==
    <<m.meta_page, m.integrity_code, m.version, m.pagesize, m.root_page,
      m.next_int, m.num_pages, m.freelist_page, m.tx_id>>

\* Meta::hash_self: a digest of bytes(); the digest is taken collision-free.
hash_self(m) == bytes(m)

\* Meta::valid: the integrity code and the stored hash; the page size is
\* compared by the caller, Inner::meta, against the handle's page size.
valid(m) ==
    /\ m.integrity_code = DATABASE_INTEGRITY_CODE
    /\ m.hash = hash_self(m)

ZeroMeta ==
    [meta_page |-> 0, integrity_code |-> 0, version |-> 0, pagesize |-> 0,
     root_page |-> 0, next_int |-> 0, num_pages |-> 0, freelist_page |-> 0,
     tx_id |-> 0, hash |-> ZeroHash]

\* ------------------------------------------------------------------------
\* Pages (page.rs)
\* ------------------------------------------------------------------------
EmptyLeaf == [k \in Keys |-> NoVal]

\* A page of zero bytes, as file.allocate leaves it.
ZeroPage ==
    [id |-> 0, page_type |-> 0, count |-> 0, meta |-> ZeroMeta,
     ids |-> {}, kv |-> EmptyLeaf]

MetaPage(id, m) == [ZeroPage EXCEPT !.id = id, !.page_type = TYPE_META, !.meta = m]

FreelistPage(id, ids) ==
    [ZeroPage EXCEPT !.id = id, !.page_type = TYPE_FREELIST,
                     !.count = Cardinality(ids), !.ids = ids]

LeafPage(id, kv) ==
    [ZeroPage EXCEPT !.id = id, !.page_type = TYPE_LEAF,
                     !.count = Cardinality({k \in Keys : kv[k] # NoVal}),
                     !.kv = kv]

\* ------------------------------------------------------------------------
\* init_file (db.rs)
\* ------------------------------------------------------------------------
\* InitMeta with the hash left as the zeroed buffer has it.
InitMeta_unhashed(i) ==
    [ZeroMeta EXCEPT !.meta_page = i,
                     !.integrity_code = DATABASE_INTEGRITY_CODE,
                     !.version = VERSION,
                     !.pagesize = PageSize,
                     !.freelist_page = InitFreelistPage,
                     !.root_page = InitRootPage,
                     !.num_pages = InitNumPages]

\* The meta record init_file writes into slot i.
InitMeta(i) ==
    LET m == [ZeroMeta EXCEPT !.meta_page = i,
                              !.integrity_code = DATABASE_INTEGRITY_CODE,
                              !.version = VERSION,
                              !.pagesize = PageSize,
                              !.freelist_page = InitFreelistPage,
                              !.root_page = InitRootPage,
                              !.num_pages = InitNumPages]
    IN  [m EXCEPT !.hash = hash_self(m)]

\* The four pages init_file writes; both meta pages are given the id 1.
init_file ==
    [p \in 0..(InitNumPages - 1) |->
        CASE p \in {0, 1} -> MetaPage(1, InitMeta(p))
          [] p = InitFreelistPage -> FreelistPage(InitFreelistPage, {})
          [] OTHER -> LeafPage(InitRootPage, EmptyLeaf)]

\* ------------------------------------------------------------------------
\* Inner::meta (inner.rs)
\* ------------------------------------------------------------------------
Panic == [ok |-> FALSE, meta |-> ZeroMeta]
Ok(m) == [ok |-> TRUE, meta |-> m]

\* PickMeta with a tie going to the first record.
PickMeta_first(meta_1, meta_2) ==
    IF meta_1.tx_id >= meta_2.tx_id THEN meta_1 ELSE meta_2

\* PickMeta with the comparison turned around.
PickMeta_lower(meta_1, meta_2) ==
    IF meta_1.tx_id < meta_2.tx_id THEN meta_1 ELSE meta_2

\* The choice between two valid records.
PickMeta(meta_1, meta_2) ==
    IF meta_1.tx_id > meta_2.tx_id THEN meta_1 ELSE meta_2

\* Inner_meta without the comparisons of the page size.
Inner_meta_any_pagesize(f, ps) ==
    IF f[0].page_type # TYPE_META \/ f[1].page_type # TYPE_META THEN Panic
    ELSE LET meta_1 == f[0].meta
             meta_2 == f[1].meta
         IN CASE valid(meta_1) /\ valid(meta_2) -> Ok(PickMeta(meta_1, meta_2))
              [] valid(meta_1) /\ ~valid(meta_2) -> Ok(meta_1)
              [] ~valid(meta_1) /\ valid(meta_2) -> Ok(meta_2)
              [] OTHER -> Panic

\* Inner::meta on the pages f of the mapping for a handle of page size ps:
\* Page::meta asserts the page type, and the page sizes are asserted.
Inner_meta(f, ps) ==
    IF f[0].page_type # TYPE_META THEN Panic
    ELSE LET meta_1 == f[0].meta IN
    IF valid(meta_1) /\ meta_1.pagesize # ps THEN Panic
    ELSE IF f[1].page_type # TYPE_META THEN Panic
    ELSE LET meta_2 == f[1].meta IN
    CASE valid(meta_1) /\ valid(meta_2) ->
            IF meta_1.pagesize # ps \/ meta_2.pagesize # ps THEN Panic
            ELSE Ok(PickMeta(meta_1, meta_2))
      [] valid(meta_1) /\ ~valid(meta_2) ->
            IF meta_1.pagesize # ps THEN Panic ELSE Ok(meta_1)
      [] ~valid(meta_1) /\ valid(meta_2) ->
            IF meta_2.pagesize # ps THEN Panic ELSE Ok(meta_2)
      [] OTHER -> Panic

\* ------------------------------------------------------------------------
\* Freelist (freelist.rs)
\* ------------------------------------------------------------------------
TxIds == 1..MaxTxId

\* Freelist::new
Freelist_new == [free_pages |-> {}, pending_pages |-> [i \in TxIds |-> <<>>]]

\* Freelist::init
Freelist_init(fl, free_pages) ==
    [fl EXCEPT !.free_pages = fl.free_pages \cup free_pages]


\* Freelist::allocate of one page against a file of len pages: the lowest
\* free page, else the page after the last one in use.  The result is the
\* page, the freelist and the page count after the allocation.
CanAllocate(fl, num_pages, len) == fl.free_pages # {} \/ num_pages < len

LowestFree(fl) == CHOOSE p \in fl.free_pages : \A q \in fl.free_pages : p <= q

allocate(fl, num_pages) ==
    IF fl.free_pages # {}
    THEN [page |-> LowestFree(fl),
          freelist |-> [fl EXCEPT !.free_pages = @ \ {LowestFree(fl)}],
          num_pages |-> num_pages]
    ELSE [page |-> num_pages, freelist |-> fl, num_pages |-> num_pages + 1]

\* Freelist::free: the page is appended to the entry of the freeing
\* transaction.
free(fl, tx_id, page) ==
    [fl EXCEPT !.pending_pages[tx_id] = Append(@, page)]

SeqSet(s) == {s[i] : i \in 1..Len(s)}

\* The entries release_pending moves for the watermark w.
Releasable(fl, w) == {i \in TxIds : i < w}

\* release_pending with the released entries kept in pending_pages.
release_pending_keep(fl, w) ==
    [free_pages |-> fl.free_pages \cup
        UNION {SeqSet(fl.pending_pages[i]) : i \in Releasable(fl, w)},
     pending_pages |-> fl.pending_pages]

\* Freelist::release_pending: the entries of the transactions before the
\* watermark move into free_pages and are dropped.
release_pending(fl, w) ==
    [free_pages |-> fl.free_pages \cup
        UNION {SeqSet(fl.pending_pages[i]) : i \in Releasable(fl, w)},
     pending_pages |-> [i \in TxIds |->
        IF i \in Releasable(fl, w) THEN <<>> ELSE fl.pending_pages[i]]]

\* ------------------------------------------------------------------------
\* Inner::open (inner.rs): on an existing file
\* ------------------------------------------------------------------------
\* Page::freelist with the whole payload taken, whatever the count.
Page_freelist_payload(pg) == pg.ids

\* Page::freelist (page.rs): the first count ids of the payload, which lies
\* in ascending order; what follows them on the page is not read.
Page_freelist(pg) ==
    {id \in pg.ids : Cardinality({j \in pg.ids : j < id}) < pg.count}

\* Page::freelist asserts the page type.
Inner_open(f, ps) ==
    LET m == Inner_meta(f, ps) IN
    IF ~m.ok THEN [result |-> "panic", freelist |-> Freelist_new]
    ELSE IF m.meta.freelist_page \notin DOMAIN f
            \/ f[m.meta.freelist_page].page_type # TYPE_FREELIST
    THEN [result |-> "panic", freelist |-> Freelist_new]
    ELSE LET free_pages == Page_freelist(f[m.meta.freelist_page]) IN
         [result |-> "ok",
          freelist |-> IF free_pages # {}
                       THEN Freelist_init(Freelist_new, free_pages)
                       ELSE Freelist_new]

\* ------------------------------------------------------------------------
\* State shared by the two specifications
\* ------------------------------------------------------------------------
NoLock == [readers |-> {}, writer |-> NoThread, held |-> FALSE]

NoTx ==
    [writable |-> FALSE, meta |-> ZeroMeta, freelist |-> Freelist_new,
     pages |-> [gen |-> 0, len |-> 0], root_kv |-> EmptyLeaf, dirty |-> {},
     view |-> EmptyLeaf]

FileLen(f) == Cardinality(DOMAIN f)

\* A generation: a meta record and the pages it refers to.
Generation(f, m) ==
    [meta |-> m, root |-> f[m.root_page], freelist |-> f[m.freelist_page]]

NoGeneration == [meta |-> ZeroMeta, root |-> ZeroPage, freelist |-> ZeroPage]

\* mmap (inner.rs): a mapping of the whole file as it is now.
mmap(f, gen) == [gen |-> gen, len |-> FileLen(f)]

\* ------------------------------------------------------------------------
\* SpecMeta: open on a file with arbitrary meta slots
\* ------------------------------------------------------------------------
SlotMetas(i) ==
    {[m EXCEPT !.hash = h] :
        m \in {[InitMeta(i) EXCEPT !.integrity_code = c, !.pagesize = s,
                                   !.tx_id = x] :
                 c \in {DATABASE_INTEGRITY_CODE, 0},
                 s \in {PageSize, OtherPageSize},
                 x \in 0..MaxTxId},
        h \in {ZeroHash}} \cup
    {[m EXCEPT !.hash = hash_self(m)] :
        m \in {[InitMeta(i) EXCEPT !.integrity_code = c, !.pagesize = s,
                                   !.tx_id = x] :
                 c \in {DATABASE_INTEGRITY_CODE, 0},
                 s \in {PageSize, OtherPageSize},
                 x \in 0..MaxTxId}}

SlotPages(i) ==
    {[MetaPage(1, m) EXCEPT !.page_type = ty] :
        m \in SlotMetas(i), ty \in {TYPE_META, 0}}

\* The file of a path that does not exist.
NoFile == [p \in {} |-> ZeroPage]

\* path.exists() of DBOpenOptions::open.
path_exists(f) == FileLen(f) > 0

InitMetaFile ==
    /\ \/ \E s0 \in SlotPages(0), s1 \in SlotPages(1) :
             file = [init_file EXCEPT ![0] = s0, ![1] = s1]
       \/ file = NoFile
    /\ data = mmap(init_file, 0)
    /\ dataLock = NoThread
    /\ mmap_lock = NoLock
    /\ fileLock = NoThread
    /\ freelist = Freelist_new
    /\ open_ro_txs = <<>>
    /\ pc = [t \in TwoThreads |-> "idle"]
    /\ tx = [t \in TwoThreads |-> NoTx]
    /\ opened = "none"
    /\ committed = NoGeneration
    /\ flock = NoThread
    /\ opens = NoOpens
    /\ bucket = NoBucket
    /\ ret = NoRet

\* DBOpenOptions::open on an existing path: Inner::open on the file.
OpenExisting ==
    /\ opened = "none"
    /\ path_exists(file)
    /\ opened' = Inner_open(file, PageSize).result
    /\ freelist' = Inner_open(file, PageSize).freelist
    /\ committed' = committed
    /\ UNCHANGED <<file, data, dataLock, mmap_lock, fileLock, open_ro_txs,
                   pc, tx,
                   flock, opens, bucket, ret>>

\* DBOpenOptions::open on a path that does not exist: init_file writes and
\* syncs the first pages, then Inner::open on the file.
OpenNew ==
    /\ opened = "none"
    /\ ~path_exists(file)
    /\ file' = init_file
    /\ data' = mmap(file', 0)
    /\ opened' = Inner_open(file', PageSize).result
    /\ freelist' = Inner_open(file', PageSize).freelist
    /\ committed' = Generation(file', Inner_meta(file', PageSize).meta)
    /\ UNCHANGED <<dataLock, mmap_lock, fileLock, open_ro_txs, pc, tx,
                   flock, opens, bucket, ret>>

NextMeta == OpenExisting \/ OpenNew

SpecMeta == InitMetaFile /\ [][NextMeta]_vars


\* ------------------------------------------------------------------------
\* Spec: transactions on a freshly initialized database
\* ------------------------------------------------------------------------
\* DBOpenOptions::open on a path that does not exist: init_file, then
\* Inner::open.
Init ==
    /\ file = init_file
    /\ data = mmap(init_file, 0)
    /\ dataLock = NoThread
    /\ mmap_lock = NoLock
    /\ fileLock = NoThread
    /\ freelist = Inner_open(init_file, PageSize).freelist
    /\ open_ro_txs = <<>>
    /\ pc = [t \in TwoThreads |-> "idle"]
    /\ tx = [t \in TwoThreads |-> NoTx]
    /\ opened = Inner_open(init_file, PageSize).result
    /\ committed = Generation(init_file, Inner_meta(init_file, PageSize).meta)
    /\ flock = NoThread
    /\ opens = NoOpens
    /\ bucket = NoBucket
    /\ ret = NoRet

Writers == {t \in Threads : pc[t] # "idle" /\ tx[t].writable}

\* Tx::new is called: the thread is at the lock of transaction.rs:43.
Tx_new_call(t, writable) ==
    /\ pc[t] = "idle"
    /\ writable => committed.meta.tx_id + Cardinality(Writers) < MaxTxId
    /\ pc' = [pc EXCEPT ![t] = "lock"]
    /\ tx' = [tx EXCEPT ![t] = [NoTx EXCEPT !.writable = writable]]
    /\ UNCHANGED <<file, data, dataLock, mmap_lock, fileLock, freelist,
                   open_ro_txs, opened, committed,
                   flock, opens, bucket, ret>>

\* LockFree without the file mutex: a writable transaction never waits.
LockFree_NoFileMutex(t) ==
    IF tx[t].writable THEN TRUE
    ELSE mmap_lock.writer = NoThread

\* The lock a new transaction waits for is free: the file mutex for a
\* writable one, the remap lock without a writer for a read-only one.
LockFree(t) ==
    IF tx[t].writable THEN fileLock = NoThread
    ELSE mmap_lock.writer = NoThread

\* Tx::new, transaction.rs:43-48: the lock, then the clone of the handle's
\* freelist.  Only a writable transaction ever reads its clone, so only a
\* writable transaction's clone is kept.
Tx_new_lock(t) ==
    /\ pc[t] = "lock"
    /\ LockFree(t)
    /\ IF tx[t].writable
       THEN fileLock' = t /\ mmap_lock' = mmap_lock
       ELSE /\ mmap_lock' = [mmap_lock EXCEPT !.readers = @ \cup {t}]
            /\ fileLock' = fileLock
    /\ tx' = [tx EXCEPT ![t].freelist =
                 IF tx[t].writable THEN freelist ELSE Freelist_new]
    /\ pc' = [pc EXCEPT ![t] = "meta"]
    /\ UNCHANGED <<file, data, dataLock, freelist, open_ro_txs, opened,
                   committed,
                   flock, opens, bucket, ret>>

\* Tx::new, transaction.rs:49: Inner::meta under the data mutex.
Tx_new_meta(t) ==
    /\ pc[t] = "meta"
    /\ dataLock = NoThread
    /\ Inner_meta(file, PageSize).ok
    /\ LET meta == Inner_meta(file, PageSize).meta IN
       tx' = [tx EXCEPT ![t].meta = meta,
                        ![t].view = file[meta.root_page].kv,
                        ![t].root_kv = file[meta.root_page].kv]
    /\ pc' = [pc EXCEPT ![t] = "finish"]
    /\ UNCHANGED <<file, data, dataLock, mmap_lock, fileLock, freelist,
                   open_ro_txs, opened, committed,
                   flock, opens, bucket, ret>>

\* Vec<u64> kept in ascending order.
RECURSIVE Insert(_, _)
Insert(s, x) ==
    IF s = <<>> THEN <<x>>
    ELSE IF x <= Head(s) THEN <<x>> \o s
    ELSE <<Head(s)>> \o Insert(Tail(s), x)

RECURSIVE Remove(_, _)
Remove(s, x) ==
    IF s = <<>> THEN <<>>
    ELSE IF Head(s) = x THEN Tail(s)
    ELSE <<Head(s)>> \o Remove(Tail(s), x)

\* The watermark a writer with the id tx_id releases against: the oldest
\* open read-only transaction, or its own id when none is open.
Watermark(registry, tx_id) ==
    IF registry = <<>> THEN tx_id ELSE Head(registry)

\* The rest of Tx::new for a writable transaction: the next transaction id,
\* release_pending against the registry, the mapping.
Tx_new_writer(t) ==
    /\ pc[t] = "finish"
    /\ tx[t].writable
    /\ dataLock = NoThread
    /\ LET tx_id == tx[t].meta.tx_id + 1 IN
       tx' = [tx EXCEPT ![t].meta.tx_id = tx_id,
                        ![t].freelist = release_pending(
                            tx[t].freelist, Watermark(open_ro_txs, tx_id)),
                        ![t].pages = data]
    /\ pc' = [pc EXCEPT ![t] = "open"]
    /\ UNCHANGED <<file, data, dataLock, mmap_lock, fileLock, freelist,
                   open_ro_txs, opened, committed,
                   flock, opens, bucket, ret>>

\* The rest of Tx::new for a read-only transaction: registration in the
\* open-readers registry, the mapping.
Tx_new_reader(t) ==
    /\ pc[t] = "finish"
    /\ ~tx[t].writable
    /\ dataLock = NoThread
    /\ open_ro_txs' = Insert(open_ro_txs, tx[t].meta.tx_id)
    /\ tx' = [tx EXCEPT ![t].pages = data]
    /\ pc' = [pc EXCEPT ![t] = "open"]
    /\ UNCHANGED <<file, data, dataLock, mmap_lock, fileLock, freelist,
                   opened, committed,
                   flock, opens, bucket, ret>>

\* Tx_close with the id left in the registry.
Tx_close_registered(t) ==
    /\ pc[t] = "open"
    /\ ~tx[t].writable
    /\ mmap_lock' = [mmap_lock EXCEPT !.readers = @ \ {t}]
    /\ pc' = [pc EXCEPT ![t] = "idle"]
    /\ tx' = [tx EXCEPT ![t] = NoTx]
    /\ UNCHANGED <<file, data, dataLock, fileLock, freelist, opened,
                   committed, open_ro_txs, flock, opens, bucket, ret>>

\* A read-only transaction ends (commit, rollback or drop): it leaves the
\* registry and releases the remap lock.
Tx_close(t) ==
    /\ pc[t] = "open"
    /\ ~tx[t].writable
    /\ open_ro_txs' = Remove(open_ro_txs, tx[t].meta.tx_id)
    /\ mmap_lock' = [mmap_lock EXCEPT !.readers = @ \ {t}]
    /\ pc' = [pc EXCEPT ![t] = "idle"]
    /\ tx' = [tx EXCEPT ![t] = NoTx]
    /\ UNCHANGED <<file, data, dataLock, fileLock, freelist, opened,
                   committed,
                   flock, opens, bucket, ret>>

\* Bucket::get on the root bucket: the leaf the transaction's meta points
\* at, read through the mapping; a writer reads its own working copy.
get(t, k) ==
    IF tx[t].writable THEN tx[t].root_kv[k]
    ELSE LET page == file[tx[t].meta.root_page] IN
         IF page.page_type = TYPE_LEAF THEN page.kv[k] ELSE "corrupt"

\* TxLock_writable with every lock taken for the writer's.
TxLock_writable_always(t) == TRUE

\* TxLock::writable: the lock of the transaction is the writer's.
TxLock_writable(t) == tx[t].writable

\* The operations of a bucket that change it.
MutatingOps == {"put", "delete", "create_bucket", "next_id"}

\* A mutating operation on a transaction that is not writable returns
\* Err(ReadOnlyTx) and does nothing else.
Bucket_readonly(t, op) ==
    /\ pc[t] = "open"
    /\ ~TxLock_writable(t)
    /\ pc' = [pc EXCEPT ![t] = "ReadOnlyTx"]
    /\ UNCHANGED <<file, data, dataLock, mmap_lock, fileLock, freelist,
                   open_ro_txs, tx, opened, committed,
                   flock, opens, bucket, ret>>

\* The caller goes on after the error.
Bucket_readonly_return(t) ==
    /\ pc[t] = "ReadOnlyTx"
    /\ pc' = [pc EXCEPT ![t] = "open"]
    /\ UNCHANGED <<file, data, dataLock, mmap_lock, fileLock, freelist,
                   open_ro_txs, tx, opened, committed,
                   flock, opens, bucket, ret>>

\* The root leaf is one of this transaction's own, not yet committed pages.
RootIsPrivate(t) == tx[t].meta.root_page \in tx[t].dirty

\* Bucket::put on the root bucket.  A leaf of the committed tree is copied
\* to a fresh page and the page it replaces is freed under this
\* transaction's id; a leaf the transaction has already copied is its own
\* and is changed in place.
put(t, k, v) ==
    /\ pc[t] = "open"
    /\ TxLock_writable(t)
    /\ IF RootIsPrivate(t)
       THEN tx' = [tx EXCEPT ![t].root_kv[k] = v]
       ELSE /\ CanAllocate(tx[t].freelist, tx[t].meta.num_pages,
                           tx[t].pages.len)
            /\ LET a == allocate(tx[t].freelist, tx[t].meta.num_pages)
                   old == tx[t].meta.root_page
               IN tx' = [tx EXCEPT
                     ![t].freelist = free(a.freelist, tx[t].meta.tx_id, old),
                     ![t].meta.root_page = a.page,
                     ![t].meta.num_pages = a.num_pages,
                     ![t].root_kv[k] = v,
                     ![t].dirty = @ \cup {a.page}]
    /\ UNCHANGED <<file, data, dataLock, mmap_lock, fileLock, freelist,
                   open_ro_txs, pc, opened, committed,
                   flock, opens, bucket, ret>>

\* Tx_rollback with the transaction's freelist made the handle's.
Tx_rollback_publish(t) ==
    /\ pc[t] \in {"open", "failed"}
    /\ tx[t].writable
    /\ freelist' = tx[t].freelist
    /\ fileLock' = NoThread
    /\ pc' = [pc EXCEPT ![t] = "idle"]
    /\ tx' = [tx EXCEPT ![t] = NoTx]
    /\ UNCHANGED <<file, data, dataLock, mmap_lock, open_ro_txs, opened,
                   committed,
                   flock, opens, bucket, ret>>

\* Tx_rollback with the file mutex kept.
Tx_rollback_locked(t) ==
    /\ pc[t] \in {"open", "failed"}
    /\ tx[t].writable
    /\ pc' = [pc EXCEPT ![t] = "idle"]
    /\ tx' = [tx EXCEPT ![t] = NoTx]
    /\ UNCHANGED <<file, data, dataLock, mmap_lock, fileLock, freelist,
                   open_ro_txs, opened, committed,
                   flock, opens, bucket, ret>>

\* Rollback or drop of a writable transaction.
Tx_rollback(t) ==
    /\ pc[t] \in {"open", "failed"}
    /\ tx[t].writable
    /\ fileLock' = NoThread
    /\ pc' = [pc EXCEPT ![t] = "idle"]
    /\ tx' = [tx EXCEPT ![t] = NoTx]
    /\ UNCHANGED <<file, data, dataLock, mmap_lock, freelist, open_ro_txs,
                   opened, committed,
                   flock, opens, bucket, ret>>


\* ------------------------------------------------------------------------
\* Inner::resize (inner.rs), called by a writer that has no page to allocate
\* ------------------------------------------------------------------------
\* file.allocate: the file grows by zero pages and never shrinks.
file_allocate(f, new_len) ==
    [p \in 0..(new_len - 1) |-> IF p \in DOMAIN f THEN f[p] ELSE ZeroPage]

\* inner.rs:60
Inner_resize_allocate(t) ==
    /\ pc[t] = "open"
    /\ tx[t].writable
    /\ ~CanAllocate(tx[t].freelist, tx[t].meta.num_pages, tx[t].pages.len)
    /\ FileLen(file) + GrowPages <= MaxPages
    /\ file' = file_allocate(file, FileLen(file) + GrowPages)
    /\ pc' = [pc EXCEPT ![t] = "rz_write"]
    /\ UNCHANGED <<data, dataLock, mmap_lock, fileLock, freelist,
                   open_ro_txs, tx, opened, committed,
                   flock, opens, bucket, ret>>

\* inner.rs:60, file.allocate(new_size)? fails: the call returns the error
\* before it has taken a lock; the file has its old length or the new one.
Inner_resize_allocate_err(t) ==
    /\ pc[t] = "open"
    /\ tx[t].writable
    /\ ~CanAllocate(tx[t].freelist, tx[t].meta.num_pages, tx[t].pages.len)
    /\ FileLen(file) + GrowPages <= MaxPages
    /\ \E f \in {file, file_allocate(file, FileLen(file) + GrowPages)} :
          file' = f
    /\ pc' = [pc EXCEPT ![t] = "failed"]
    /\ UNCHANGED <<data, dataLock, mmap_lock, fileLock, freelist,
                   open_ro_txs, tx, opened, committed,
                   flock, opens, bucket, ret>>

\* WriteLockFree without the wait for the readers inside.
WriteLockFree_always == TRUE

\* The remap lock can be taken in write mode.
WriteLockFree == mmap_lock.readers = {}

\* inner.rs:61, mmap_lock.write() is entered: the lock's writer bit is taken,
\* which keeps new readers out while the readers inside drain; with no
\* reader inside the call returns with the lock.
Inner_resize_request(t) ==
    /\ pc[t] = "rz_write"
    /\ mmap_lock.writer = NoThread
    /\ mmap_lock' = [mmap_lock EXCEPT !.writer = t, !.held = WriteLockFree]
    /\ pc' = [pc EXCEPT ![t] = IF WriteLockFree THEN "rz_data" ELSE "rz_wait"]
    /\ UNCHANGED <<file, data, dataLock, fileLock, freelist, open_ro_txs,
                   tx, opened, committed,
                   flock, opens, bucket, ret>>

\* inner.rs:61, mmap_lock.write() returns once the readers inside have left.
Inner_resize_write(t) ==
    /\ pc[t] = "rz_wait"
    /\ WriteLockFree
    /\ mmap_lock' = [mmap_lock EXCEPT !.held = TRUE]
    /\ pc' = [pc EXCEPT ![t] = "rz_data"]
    /\ UNCHANGED <<file, data, dataLock, fileLock, freelist, open_ro_txs,
                   tx, opened, committed,
                   flock, opens, bucket, ret>>

\* inner.rs:62
Inner_resize_data(t) ==
    /\ pc[t] = "rz_data"
    /\ dataLock = NoThread
    /\ dataLock' = t
    /\ pc' = [pc EXCEPT ![t] = "rz_map"]
    /\ UNCHANGED <<file, data, mmap_lock, fileLock, freelist, open_ro_txs,
                   tx, opened, committed,
                   flock, opens, bucket, ret>>

\* Inner_resize_swap taken also while mmap_lock.write() still waits for the
\* readers inside.
Inner_resize_swap_early(t) ==
    /\ pc[t] \in {"rz_wait", "rz_map"}
    /\ data' = mmap(file, data.gen + 1)
    /\ mmap_lock' = [mmap_lock EXCEPT !.writer = NoThread, !.held = FALSE]
    /\ dataLock' = t
    /\ pc' = [pc EXCEPT ![t] = "rz_ret"]
    /\ UNCHANGED <<file, fileLock, freelist, open_ro_txs, tx, opened,
                   committed, flock, opens, bucket, ret>>

\* Inner_resize_swap with the write guard of the remap lock never dropped.
Inner_resize_swap_write_held(t) ==
    /\ pc[t] = "rz_map"
    /\ data' = mmap(file, data.gen + 1)
    /\ pc' = [pc EXCEPT ![t] = "rz_ret"]
    /\ UNCHANGED <<file, dataLock, mmap_lock, fileLock, freelist,
                   open_ro_txs, tx, opened, committed,
                   flock, opens, bucket, ret>>

\* inner.rs:63-65: the new mapping is swapped in and the remap lock dropped.
Inner_resize_swap(t) ==
    /\ pc[t] = "rz_map"
    /\ data' = mmap(file, data.gen + 1)
    /\ mmap_lock' = NoLock
    /\ pc' = [pc EXCEPT ![t] = "rz_ret"]
    /\ UNCHANGED <<file, dataLock, fileLock, freelist, open_ro_txs, tx,
                   opened, committed,
                   flock, opens, bucket, ret>>

\* Inner_resize_swap_err with the remap lock kept.
Inner_resize_swap_err_held(t) ==
    /\ pc[t] = "rz_map"
    /\ dataLock' = NoThread
    /\ pc' = [pc EXCEPT ![t] = "failed"]
    /\ UNCHANGED <<file, data, mmap_lock, fileLock, freelist, open_ro_txs,
                   tx, opened, committed,
                   flock, opens, bucket, ret>>

\* inner.rs:63, mmap(...)? fails: the call returns the error, the two guards
\* are dropped as it returns and the mapping is the old one.
Inner_resize_swap_err(t) ==
    /\ pc[t] = "rz_map"
    /\ mmap_lock' = NoLock
    /\ dataLock' = NoThread
    /\ pc' = [pc EXCEPT ![t] = "failed"]
    /\ UNCHANGED <<file, data, fileLock, freelist, open_ro_txs, tx, opened,
                   committed,
                   flock, opens, bucket, ret>>

\* Inner_resize_return with the data mutex kept.
Inner_resize_return_held(t) ==
    /\ pc[t] = "rz_ret"
    /\ tx' = [tx EXCEPT ![t].pages = data]
    /\ pc' = [pc EXCEPT ![t] = "open"]
    /\ UNCHANGED <<file, data, dataLock, mmap_lock, fileLock, freelist,
                   open_ro_txs, opened, committed,
                   flock, opens, bucket, ret>>

\* inner.rs:66: the caller gets the new mapping; the data mutex is released
\* as the function returns.
Inner_resize_return(t) ==
    /\ pc[t] = "rz_ret"
    /\ tx' = [tx EXCEPT ![t].pages = data]
    /\ dataLock' = NoThread
    /\ pc' = [pc EXCEPT ![t] = "open"]
    /\ UNCHANGED <<file, data, mmap_lock, fileLock, freelist, open_ro_txs,
                   opened, committed,
                   flock, opens, bucket, ret>>

\* ------------------------------------------------------------------------
\* Tx::commit of a writable transaction
\* ------------------------------------------------------------------------
\* The slot a commit writes: the one the current meta is not in.
NonCurrentSlot(m) == 1 - m.meta_page

\* The file after the pages ps of the transaction were written: its root
\* leaf and its freelist page.
WritePages(f, ps, m, fl, kv) ==
    [p \in DOMAIN f |->
        IF p \notin ps THEN f[p]
        ELSE IF p = m.freelist_page THEN FreelistPage(p, fl.free_pages)
        ELSE LeafPage(p, kv)]

\* The transaction as its commit writes it: the freelist moves to a fresh
\* page and the page it leaves is freed.
CommitTx(t) ==
    LET a == allocate(tx[t].freelist, tx[t].meta.num_pages)
    IN  [tx[t] EXCEPT
           !.freelist = free(a.freelist, tx[t].meta.tx_id,
                             tx[t].meta.freelist_page),
           !.meta = [tx[t].meta EXCEPT !.freelist_page = a.page,
                                       !.num_pages = a.num_pages],
           !.dirty = @ \cup {a.page}]

\* The dirty pages are written, in the order of their ids.
Tx_commit_pages(t) ==
    /\ pc[t] = "open"
    /\ tx[t].writable
    /\ CanAllocate(tx[t].freelist, tx[t].meta.num_pages, tx[t].pages.len)
    /\ LET c == CommitTx(t)
       IN /\ tx' = [tx EXCEPT ![t] = c]
          /\ file' = WritePages(file, c.dirty, c.meta, c.freelist, c.root_kv)
    /\ pc' = [pc EXCEPT ![t] = "c_flush"]
    /\ UNCHANGED <<data, dataLock, mmap_lock, fileLock, freelist,
                   open_ro_txs, opened, committed,
                   flock, opens, bucket, ret>>

\* An I/O failure while the dirty pages are written leaves the pages from
\* some page on unwritten.
Tx_commit_pages_err(t) ==
    /\ pc[t] = "open"
    /\ tx[t].writable
    /\ CanAllocate(tx[t].freelist, tx[t].meta.num_pages, tx[t].pages.len)
    /\ LET c == CommitTx(t)
       IN /\ tx' = [tx EXCEPT ![t] = c]
          /\ \E bad \in c.dirty :
                file' = WritePages(file, {p \in c.dirty : p < bad}, c.meta,
                                   c.freelist, c.root_kv)
    /\ pc' = [pc EXCEPT ![t] = "failed"]
    /\ UNCHANGED <<data, dataLock, mmap_lock, fileLock, freelist,
                   open_ro_txs, opened, committed,
                   flock, opens, bucket, ret>>

\* Flush and sync of the pages written.
Tx_commit_flush(t) ==
    /\ pc[t] = "c_flush"
    /\ pc' = [pc EXCEPT ![t] = "c_meta"]
    /\ UNCHANGED <<file, data, dataLock, mmap_lock, fileLock, freelist,
                   open_ro_txs, tx, opened, committed,
                   flock, opens, bucket, ret>>

\* The flush or the sync fails.
Tx_commit_flush_err(t) ==
    /\ pc[t] = "c_flush"
    /\ pc' = [pc EXCEPT ![t] = "failed"]
    /\ UNCHANGED <<file, data, dataLock, mmap_lock, fileLock, freelist,
                   open_ro_txs, tx, opened, committed,
                   flock, opens, bucket, ret>>

\* The record a commit writes: the transaction's meta, in the slot it goes
\* to, hashed.
NewMeta(m) ==
    LET n == [m EXCEPT !.meta_page = NonCurrentSlot(m)]
    IN  [n EXCEPT !.hash = hash_self(n)]

\* A meta write cut short: the fields are new, the hash is the slot's old.
TornMeta(m, old) == [NewMeta(m) EXCEPT !.hash = old.hash]

\* Meta write and sync: the new record is in the other slot once the sync
\* returns.
Tx_commit_meta(t) ==
    /\ pc[t] = "c_meta"
    /\ LET slot == NonCurrentSlot(tx[t].meta)
           m == NewMeta(tx[t].meta)
       IN /\ file' = [file EXCEPT ![slot] = MetaPage(slot, m)]
          /\ committed' = Generation(file', m)
          /\ tx' = [tx EXCEPT ![t].meta = m]
    /\ pc' = [pc EXCEPT ![t] = "c_finish"]
    /\ UNCHANGED <<data, dataLock, mmap_lock, fileLock, freelist,
                   open_ro_txs, opened,
                   flock, opens, bucket, ret>>

\* The meta write or its sync fails: the slot is as it was or holds a torn
\* record.
Tx_commit_meta_err(t) ==
    /\ pc[t] = "c_meta"
    /\ LET slot == NonCurrentSlot(tx[t].meta)
       IN \E torn \in {file[slot],
                       MetaPage(slot, TornMeta(tx[t].meta, file[slot].meta))} :
             file' = [file EXCEPT ![slot] = torn]
    /\ pc' = [pc EXCEPT ![t] = "failed"]
    /\ UNCHANGED <<data, dataLock, mmap_lock, fileLock, freelist,
                   open_ro_txs, tx, opened, committed,
                   flock, opens, bucket, ret>>

\* The commit is through: the transaction's freelist becomes the handle's
\* and the file mutex is released.
Tx_commit_finish(t) ==
    /\ pc[t] = "c_finish"
    /\ freelist' = tx[t].freelist
    /\ fileLock' = NoThread
    /\ pc' = [pc EXCEPT ![t] = "idle"]
    /\ tx' = [tx EXCEPT ![t] = NoTx]
    /\ UNCHANGED <<file, data, dataLock, mmap_lock, open_ro_txs, opened,
                   committed,
                   flock, opens, bucket, ret>>

Next ==
    \E t \in TwoThreads :
        \/ \E writable \in BOOLEAN : Tx_new_call(t, writable)
        \/ Tx_new_lock(t)
        \/ Tx_new_meta(t)
        \/ Tx_new_writer(t)
        \/ Tx_new_reader(t)
        \/ Tx_close(t)
        \/ \E k \in Keys, v \in Values : put(t, k, v)
        \/ Tx_rollback(t)
        \/ Inner_resize_allocate(t)
        \/ Inner_resize_request(t)
        \/ Inner_resize_write(t)
        \/ Inner_resize_data(t)
        \/ Inner_resize_swap(t)
        \/ Inner_resize_return(t)
        \/ Tx_commit_pages(t)
        \/ Tx_commit_flush(t)
        \/ Tx_commit_meta(t)
        \/ Tx_commit_finish(t)
        \/ Tx_commit_pages_err(t)
        \/ Tx_commit_flush_err(t)
        \/ Tx_commit_meta_err(t)
        \/ \E op \in MutatingOps : Bucket_readonly(t, op)
        \/ Bucket_readonly_return(t)

Spec == Init /\ [][Next]_vars

\* ------------------------------------------------------------------------
\* SpecConc: three threads on a freshly initialized database, no I/O failure
\* ------------------------------------------------------------------------
InitConc ==
    /\ file = init_file
    /\ data = mmap(init_file, 0)
    /\ dataLock = NoThread
    /\ mmap_lock = NoLock
    /\ fileLock = NoThread
    /\ freelist = Inner_open(init_file, PageSize).freelist
    /\ open_ro_txs = <<>>
    /\ pc = [t \in ThreeThreads |-> "idle"]
    /\ tx = [t \in ThreeThreads |-> NoTx]
    /\ opened = Inner_open(init_file, PageSize).result
    /\ committed = Generation(init_file, Inner_meta(init_file, PageSize).meta)
    /\ flock = NoThread
    /\ opens = NoOpens
    /\ bucket = NoBucket
    /\ ret = NoRet

\* The steps in which no I/O operation fails.
NextConc ==
    \E t \in ThreeThreads :
        \/ \E writable \in BOOLEAN : Tx_new_call(t, writable)
        \/ Tx_new_lock(t)
        \/ Tx_new_meta(t)
        \/ Tx_new_writer(t)
        \/ Tx_new_reader(t)
        \/ Tx_close(t)
        \/ \E k \in Keys, v \in Values : put(t, k, v)
        \/ Tx_rollback(t)
        \/ Inner_resize_allocate(t)
        \/ Inner_resize_request(t)
        \/ Inner_resize_write(t)
        \/ Inner_resize_data(t)
        \/ Inner_resize_swap(t)
        \/ Inner_resize_return(t)
        \/ Tx_commit_pages(t)
        \/ Tx_commit_flush(t)
        \/ Tx_commit_meta(t)
        \/ Tx_commit_finish(t)

SpecConc == InitConc /\ [][NextConc]_vars


\* ------------------------------------------------------------------------
\* Properties
\* ------------------------------------------------------------------------
\* A transaction Tx::new has returned and that has not ended.
Active(t) == pc[t] \notin {"idle", "lock", "meta", "finish"}

ActiveWriters == {t \in Threads : Active(t) /\ tx[t].writable}

OpenReaders == {t \in Threads : Active(t) /\ ~tx[t].writable}

\* C1: in every reachable state at most one writable transaction is active,
\* and no thread is past the lock of Tx::new(writable = true) while another
\* thread holds a writable transaction.
C1_SingleWriter ==
    /\ Cardinality(ActiveWriters) <= 1
    /\ \A t \in Threads :
          (tx[t].writable /\ pc[t] \notin {"idle", "lock"}) => fileLock = t

\* A writable transaction is active while another thread waits in
\* Tx::new(writable = true).
C1_Witness ==
    \E t, u \in Threads :
        /\ t # u
        /\ t \in ActiveWriters
        /\ pc[u] = "lock"
        /\ tx[u].writable

\* C2: every get on an open read-only transaction returns the value the key
\* had in the generation the transaction snapshotted when it opened.
C2_SnapshotIsolation ==
    \A r \in OpenReaders : \A k \in Keys : get(r, k) = tx[r].view[k]

PendingSet(fl) == UNION {SeqSet(fl.pending_pages[i]) : i \in TxIds}

\* C3: no page reachable from the snapshot of an open read-only transaction
\* is in free_pages, of the handle's freelist or of a writer's, or was handed
\* out by allocate to a later writer.
C3_ReclamationSafe ==
    \A r \in OpenReaders :
        LET p == tx[r].meta.root_page IN
        /\ fileLock = NoThread => p \notin freelist.free_pages
        /\ \A w \in Threads :
              (tx[w].writable /\ pc[w] # "idle") =>
                 /\ p \notin tx[w].freelist.free_pages
                 /\ tx[w].meta.tx_id > tx[r].meta.tx_id => p \notin tx[w].dirty

\* The meta Inner::meta returns on the file as it is, and the slot it is in.
CurrentMeta == Inner_meta(file, PageSize).meta

CurrentSlot == CHOOSE i \in {0, 1} : file[i].meta = CurrentMeta

SlotValid(i) ==
    /\ file[i].page_type = TYPE_META
    /\ file[i].meta.integrity_code = DATABASE_INTEGRITY_CODE
    /\ file[i].meta.pagesize = PageSize
    /\ file[i].meta.hash = hash_self(file[i].meta)

\* C5: once the file was opened, whatever the two slots hold: with exactly
\* one valid slot Inner::meta returns that slot's record, with two valid
\* slots of different transaction ids the record of the greater id.
C5_MetaSelection ==
    opened # "none" =>
        LET r == Inner_meta(file, PageSize) IN
        /\ (SlotValid(0) /\ ~SlotValid(1)) => r = Ok(file[0].meta)
        /\ (~SlotValid(0) /\ SlotValid(1)) => r = Ok(file[1].meta)
        /\ (SlotValid(0) /\ SlotValid(1)
              /\ file[0].meta.tx_id > file[1].meta.tx_id) =>
                 r = Ok(file[0].meta)
        /\ (SlotValid(0) /\ SlotValid(1)
              /\ file[1].meta.tx_id > file[0].meta.tx_id) =>
                 r = Ok(file[1].meta)

\* C6: once a file with no valid slot was opened, the open has returned the
\* error InvalidDB.
C6_InvalidDBReturned ==
    (opened # "none" /\ ~SlotValid(0) /\ ~SlotValid(1)) => opened = "InvalidDB"

\* No page id is in free_pages and in a pending_pages entry, or in two
\* pending_pages entries.
Disjoint(fl) ==
    /\ fl.free_pages \cap PendingSet(fl) = {}
    /\ \A i, j \in TxIds :
          i # j => SeqSet(fl.pending_pages[i]) \cap
                   SeqSet(fl.pending_pages[j]) = {}

\* C7: the handle's freelist and the working freelist of every writable
\* transaction are disjoint in that sense, and no page allocate has returned
\* to a transaction is in a pending_pages entry or still in free_pages.
C7_FreelistDisjoint ==
    /\ Disjoint(freelist)
    /\ \A t \in Threads :
          (tx[t].writable /\ pc[t] \notin {"idle", "lock"}) =>
             /\ Disjoint(tx[t].freelist)
             /\ tx[t].dirty \cap PendingSet(tx[t].freelist) = {}
             /\ tx[t].dirty \cap tx[t].freelist.free_pages = {}

\* A writer has been handed a page out of free_pages, released from an
\* earlier transaction's pending entry, while its own entry holds pages.
C7_Witness ==
    \E t \in Threads :
        /\ tx[t].writable
        /\ pc[t] = "open"
        /\ \E p \in tx[t].dirty : p < committed.meta.num_pages
        /\ tx[t].freelist.pending_pages[tx[t].meta.tx_id] # <<>>
        /\ tx[t].freelist.free_pages # {}

\* A step in which the sync of a commit's meta record returns success.
CommitSucceeds == \E t \in Threads : pc[t] = "c_meta" /\ pc'[t] = "c_finish"

Blocked(t) ==
    /\ ~tx[t].writable
    /\ pc[t] \in {"lock", "meta", "finish"}
    /\ ~ENABLED (Tx_new_lock(t) \/ Tx_new_meta(t) \/ Tx_new_reader(t))

\* A thread is in Inner::resize, between its call of mmap_lock.write() and
\* its return.
InResize(w) == pc[w] \in {"rz_wait", "rz_data", "rz_map", "rz_ret"}

C10_MappingStable ==
    [][/\ \A r \in OpenReaders :
             /\ tx[r].pages = data
             /\ tx[r].meta.num_pages <= tx[r].pages.len
             /\ data' = data
             /\ pc'[r] # "idle" => tx'[r].pages = tx[r].pages
       /\ data' # data => mmap_lock.readers = {}]_vars

\* A read-only transaction is open on the old mapping while the file has
\* grown and Inner::resize waits for the remap lock.
C10_Witness ==
    \E r, w \in Threads :
        /\ r \in OpenReaders
        /\ pc[w] = "rz_wait"
        /\ FileLen(file) > tx[r].pages.len

\* ------------------------------------------------------------------------
\* SpecFair: two threads, with the fairness of the locks
\* ------------------------------------------------------------------------
\* The file mutex and the remap lock are parking_lot locks, which hand a
\* lock that is released again and again to a thread that keeps waiting.
\* Of the I/O failures of a commit the one of the flush is kept: the others
\* differ from it in the pages of the file only, which no lock depends on.
NextFair ==
    \E t \in TwoThreads :
        \/ \E writable \in BOOLEAN : Tx_new_call(t, writable)
        \/ Tx_new_lock(t)
        \/ Tx_new_meta(t)
        \/ Tx_new_writer(t)
        \/ Tx_new_reader(t)
        \/ Tx_close(t)
        \/ \E k \in Keys, v \in Values : put(t, k, v)
        \/ Tx_rollback(t)
        \/ Inner_resize_allocate(t)
        \/ Inner_resize_request(t)
        \/ Inner_resize_write(t)
        \/ Inner_resize_data(t)
        \/ Inner_resize_swap(t)
        \/ Inner_resize_return(t)
        \/ Tx_commit_pages(t)
        \/ Tx_commit_flush(t)
        \/ Tx_commit_flush_err(t)
        \/ Tx_commit_meta(t)
        \/ Tx_commit_finish(t)

SpecFair ==
    /\ Init
    /\ [][NextFair]_vars
    /\ \A t \in TwoThreads : SF_vars(Tx_new_lock(t))

\* The thread waits in Tx::new(writable = true) for the file mutex.
WaitingWriter(t) == tx[t].writable /\ pc[t] = "lock"

\* No writable transaction is past the file mutex: all earlier writers have
\* ended.
WritersEnded == \A u \in Threads : tx[u].writable => pc[u] \in {"idle", "lock"}

\* A step that releases the file mutex ends the writable transaction of its
\* holder, by the end of a commit or by rollback or drop.
ReleaseEndsTx ==
    (fileLock # NoThread /\ fileLock' # fileLock) =>
        /\ fileLock' = NoThread
        /\ pc[fileLock] \in {"open", "failed", "c_finish"}
        /\ pc'[fileLock] = "idle"

\* C11: a waiting writer leaves Tx::new's lock only in a step that finds the
\* file mutex free, the mutex is released only by the end of its holder's
\* transaction, and when the earlier writers end again and again a waiting
\* writer eventually gets the mutex.
C11_WriterHandOver ==
    /\ [][/\ \A t \in TwoThreads :
               (WaitingWriter(t) /\ pc'[t] # "lock") =>
                   (fileLock = NoThread /\ fileLock' = t)
          /\ ReleaseEndsTx]_vars
    /\ \A t \in TwoThreads :
          ([]<>WritersEnded) => (WaitingWriter(t) ~> ~WaitingWriter(t))

\* The second writable transaction in a row is active, having waited for
\* the first, and the thread of the first waits for it in turn.
C11_Witness ==
    \E t, u \in Threads :
        /\ t # u
        /\ t \in ActiveWriters
        /\ tx[t].meta.tx_id = 2
        /\ committed.meta.tx_id = 1
        /\ WaitingWriter(u)

\* The writable transaction of t holds the file mutex and no commit of it
\* has been called.
Uncommitted(t) ==
    /\ tx[t].writable
    /\ pc[t] \in {"meta", "finish", "open", "rz_write", "rz_wait", "rz_data",
                  "rz_map", "rz_ret"}

\* C12: from the lock of Tx::new to the rollback or drop of a writable
\* transaction whose commit was not called, no step of any thread, the
\* rollback among them, changes a meta slot or the handle's freelist, so
\* both are at the rollback what they were when the transaction opened; the
\* rollback releases the file mutex and discards the transaction's own
\* freelist and pages.
C12_RollbackFrame ==
    [][\A t \in Threads :
          Uncommitted(t) =>
             /\ file'[0] = file[0]
             /\ file'[1] = file[1]
             /\ freelist' = freelist
             /\ pc'[t] = "idle" =>
                   /\ fileLock = t
                   /\ fileLock' = NoThread
                   /\ tx'[t] = NoTx]_vars

\* A writable transaction that can be rolled back has changed its own
\* freelist and moved its root to a page of its own, after an earlier
\* commit left entries in the handle's pending_pages.
C12_Witness ==
    \E t \in Threads :
        /\ Uncommitted(t)
        /\ pc[t] = "open"
        /\ tx[t].dirty # {}
        /\ tx[t].freelist # freelist
        /\ PendingSet(freelist) # {}
        /\ ENABLED Tx_rollback(t)

OpenedNew == opened # "none" /\ committed # NoGeneration

\* What init_file leaves but for the relation of the two meta records: two
\* valid records of transaction 0 with the root at the initial page, next_int
\* 0 and the freelist at the initial page, a freelist page and a root leaf
\* with count 0, written before the open returns, and an open that succeeds
\* with an empty freelist and an empty root bucket.
InitContract ==
    /\ opened = "ok"
    /\ \A i \in {0, 1} :
          /\ SlotValid(i)
          /\ file[i].meta.tx_id = 0
          /\ file[i].meta.root_page = InitRootPage
          /\ file[i].meta.next_int = 0
          /\ file[i].meta.freelist_page = InitFreelistPage
    /\ file[InitFreelistPage].page_type = TYPE_FREELIST
    /\ file[InitFreelistPage].count = 0
    /\ file[InitRootPage].page_type = TYPE_LEAF
    /\ file[InitRootPage].count = 0
    /\ file[InitRootPage].kv = EmptyLeaf
    /\ freelist = Freelist_new
    /\ committed = Generation(file, CurrentMeta)
    /\ committed.root.kv = EmptyLeaf

\* C14, as stated: after the open of a path that did not exist the contract
\* of init_file holds and pages 0 and 1 hold identical meta records.
C14_IdenticalMetas ==
    OpenedNew => (InitContract /\ file[0].meta = file[1].meta)

\* C14: after the open of a path that did not exist the contract of
\* init_file holds and the meta records of pages 0 and 1 are identical in
\* every field but meta_page, which is the slot's index, and the hash taken
\* over it.
C14_FileOpenContract ==
    OpenedNew =>
        /\ InitContract
        /\ \A i \in {0, 1} : file[i].meta.meta_page = i
        /\ [file[0].meta EXCEPT !.meta_page = 1, !.hash = ZeroHash] =
           [file[1].meta EXCEPT !.hash = ZeroHash]

\* A path that did not exist has been opened.
C14_Witness == OpenedNew /\ file = init_file /\ opened = "ok"

\* C15: every page of the file that was written, the pages of init_file
\* among them, carries its index in the file as its id.
C15_PageId ==
    \A p \in DOMAIN file : file[p].page_type # 0 => file[p].id = p

\* ------------------------------------------------------------------------
\* SpecHash: a meta record is hashed, then one of its fields is changed
\* ------------------------------------------------------------------------
\* The fields Meta::bytes serializes, and the values the model gives them.
MetaFields ==
    {"meta_page", "integrity_code", "version", "pagesize", "root_page",
     "next_int", "num_pages", "freelist_page", "tx_id"}

FieldValues(f) ==
    CASE f = "meta_page" -> {0, 1}
      [] f = "integrity_code" -> {DATABASE_INTEGRITY_CODE, 0}
      [] f = "version" -> {VERSION, 0}
      [] f = "pagesize" -> {PageSize, OtherPageSize}
      [] f = "root_page" -> {InitRootPage, InitNumPages}
      [] f = "next_int" -> {0, 1}
      [] f = "num_pages" -> {InitNumPages, InitNumPages + GrowPages}
      [] f = "freelist_page" -> {InitFreelistPage, InitNumPages}
      [] OTHER -> 0..MaxTxId

\* The records of these values, not yet hashed.
MetaRecords ==
    [meta_page : FieldValues("meta_page"),
     integrity_code : FieldValues("integrity_code"),
     version : FieldValues("version"),
     pagesize : FieldValues("pagesize"),
     root_page : FieldValues("root_page"),
     next_int : FieldValues("next_int"),
     num_pages : FieldValues("num_pages"),
     freelist_page : FieldValues("freelist_page"),
     tx_id : FieldValues("tx_id"),
     hash : {ZeroHash}]

\* The thread that holds the record.
HashThread == "t1"

\* m.hash = m.hash_self()
Hashed(m) == [m EXCEPT !.hash = hash_self(m)]

InitHash ==
    /\ file = init_file
    /\ data = mmap(init_file, 0)
    /\ dataLock = NoThread
    /\ mmap_lock = NoLock
    /\ fileLock = NoThread
    /\ freelist = Freelist_new
    /\ open_ro_txs = <<>>
    /\ pc = [t \in TwoThreads |-> IF t = HashThread THEN "hashed" ELSE "idle"]
    /\ \E m \in MetaRecords :
          tx = [t \in TwoThreads |->
                  IF t = HashThread
                  THEN [NoTx EXCEPT !.meta = Hashed(m)]
                  ELSE NoTx]
    /\ opened = "none"
    /\ committed = NoGeneration
    /\ flock = NoThread
    /\ opens = NoOpens
    /\ bucket = NoBucket
    /\ ret = NoRet

\* One field of the hashed record is given another value; the hash stays.
MutateField(f, v) ==
    /\ pc[HashThread] = "hashed"
    /\ v # tx[HashThread].meta[f]
    /\ tx' = [tx EXCEPT ![HashThread].meta[f] = v]
    /\ pc' = [pc EXCEPT ![HashThread] = "mutated"]
    /\ UNCHANGED <<file, data, dataLock, mmap_lock, fileLock, freelist,
                   open_ro_txs, opened, committed,
                   flock, opens, bucket, ret>>

NextHash == \E f \in MetaFields : \E v \in FieldValues(f) : MutateField(f, v)

SpecHash == InitHash /\ [][NextHash]_vars

\* C16: a record of which one field was changed after it was hashed is not
\* valid.
C16_HashIntegrity ==
    pc[HashThread] = "mutated" => ~valid(tx[HashThread].meta)

\* A record that carries the integrity code, and so was valid when hashed,
\* has had its next_int changed.
C16_Witness ==
    /\ pc[HashThread] = "mutated"
    /\ tx[HashThread].meta.integrity_code = DATABASE_INTEGRITY_CODE
    /\ valid(Hashed(tx[HashThread].meta))
    /\ \E v \in FieldValues("next_int") :
          v # tx[HashThread].meta.next_int
          /\ valid([tx[HashThread].meta EXCEPT !.next_int = v])

\* Slot i holds a record that validates but for its page size.
WrongPageSize(i) ==
    /\ file[i].page_type = TYPE_META
    /\ valid(file[i].meta)
    /\ file[i].meta.pagesize # PageSize

\* C17: whatever the two slots hold, a record Inner::meta returns carries
\* the handle's page size, and with a slot that validates but for its page
\* size Inner::meta returns no record at all and the open ends in the panic:
\* the slot is neither selected nor passed over for the other.
C17_PageSizeFatal ==
    /\ (path_exists(file) /\ Inner_meta(file, PageSize).ok) =>
          Inner_meta(file, PageSize).meta.pagesize = PageSize
    /\ (path_exists(file) /\ (WrongPageSize(0) \/ WrongPageSize(1))) =>
          /\ ~Inner_meta(file, PageSize).ok
          /\ opened \in {"none", "panic"}

\* The open has ended in the panic on a file whose slot 0 is valid and
\* whose slot 1 validates but for its page size, with the lower id.
C17_Witness ==
    /\ opened = "panic"
    /\ SlotValid(0)
    /\ WrongPageSize(1)
    /\ file[1].meta.tx_id < file[0].meta.tx_id

\* ------------------------------------------------------------------------
\* SpecGrow: two threads; the only failures are those of Inner::resize
\* ------------------------------------------------------------------------
NextGrow ==
    \E t \in TwoThreads :
        \/ \E writable \in BOOLEAN : Tx_new_call(t, writable)
        \/ Tx_new_lock(t)
        \/ Tx_new_meta(t)
        \/ Tx_new_writer(t)
        \/ Tx_new_reader(t)
        \/ Tx_close(t)
        \/ \E k \in Keys, v \in Values : put(t, k, v)
        \/ Tx_rollback(t)
        \/ Inner_resize_allocate(t)
        \/ Inner_resize_request(t)
        \/ Inner_resize_write(t)
        \/ Inner_resize_data(t)
        \/ Inner_resize_swap(t)
        \/ Inner_resize_return(t)
        \/ Inner_resize_allocate_err(t)
        \/ Inner_resize_swap_err(t)
        \/ Tx_commit_pages(t)
        \/ Tx_commit_flush(t)
        \/ Tx_commit_meta(t)
        \/ Tx_commit_finish(t)

SpecGrow == Init /\ [][NextGrow]_vars

\* A step in which the Inner::resize that t called fails: file.allocate
\* (t has no page to allocate and has not entered the call's locks) or mmap.
ResizeFails(t) ==
    /\ \/ /\ pc[t] = "open"
          /\ tx[t].writable
          /\ ~CanAllocate(tx[t].freelist, tx[t].meta.num_pages,
                          tx[t].pages.len)
       \/ pc[t] = "rz_map"
    /\ pc'[t] = "failed"

\* C18: a growth that fails ends in the failure of the transaction that
\* asked for it, which can only be rolled back; the mapping and the
\* transaction's view of it are the old ones, the two meta slots and the
\* meta selected from them are unchanged, and neither the remap lock nor
\* the data mutex is left with the caller, so that a reader can start.
C18_GrowthFailure ==
    [][\A t \in TwoThreads :
          ResizeFails(t) =>
             /\ data' = data
             /\ tx'[t] = tx[t]
             /\ file'[0] = file[0] /\ file'[1] = file[1]
             /\ Inner_meta(file', PageSize) = Inner_meta(file, PageSize)
             /\ mmap_lock'.writer = NoThread
             /\ pc[t] = "rz_map" => mmap_lock' = NoLock
             /\ dataLock' = NoThread
             /\ fileLock' = t]_vars

\* A growth has failed after the file was extended: the writer is failed,
\* the mapping is the first one and the file is longer than it.
C18_Witness ==
    \E t \in TwoThreads :
        /\ pc[t] = "failed"
        /\ tx[t].writable
        /\ data.gen = 0
        /\ FileLen(file) > data.len
        /\ mmap_lock = NoLock
        /\ dataLock = NoThread

\* ------------------------------------------------------------------------
\* SpecOpen: two openers of one path, through DBOpenOptions (db.rs) or
\* through Config (config/mod.rs)
\* ------------------------------------------------------------------------
Openers == {"h1", "h2"}

\* The page sizes an opener asks for: below the minimum, the minimum, one
\* that is no power of two, and the default.
RequestedPageSizes == {512, OtherPageSize, 3000, PageSize}

\* The segment sizes an opener asks for: below the minimum, the minimum, one
\* that is no power of two, the maximum 2^24, and 2^25.
RequestedSegmentSizes == {128, 256, 384, 16777216, 33554432}

\* usize::count_ones() == 1
RECURSIVE IsPowerOfTwo(_)
IsPowerOfTwo(n) ==
    IF n <= 0 THEN FALSE
    ELSE IF n = 1 THEN TRUE
    ELSE n % 2 = 0 /\ IsPowerOfTwo(n \div 2)

\* An opener that has not called open; effects are what its call has done
\* to the path: "created", "locked", "mapped".
NoOpen ==
    [api |-> "none", pc |-> "idle", page_size |-> PageSize,
     segment_size |-> 0, testing |-> FALSE, held_at_call |-> FALSE,
     result |-> "none", effects |-> {}]

\* The file init_file writes for the page size ps.
init_file_sized(ps) ==
    [p \in DOMAIN init_file |->
        IF p \in {0, 1}
        THEN LET m == [InitMeta(p) EXCEPT !.pagesize = ps]
             IN  MetaPage(1, [m EXCEPT !.hash = hash_self(m)])
        ELSE init_file[p]]

\* Another opener holds the exclusive lock on the file.
HeldByOther(p) == flock \notin {NoThread, p}

\* DBOpenOptions::page_size: the only check is the panic below 1024.
DBOpenOptions_page_size(p, ps) ==
    /\ opens[p].pc = "idle"
    /\ opens' = [opens EXCEPT ![p] =
                   IF ps < OtherPageSize
                   THEN [NoOpen EXCEPT !.api = "DBOpenOptions",
                                       !.page_size = ps,
                                       !.pc = "done", !.result = "panic"]
                   ELSE [NoOpen EXCEPT !.api = "DBOpenOptions",
                                       !.page_size = ps, !.pc = "built"]]
    /\ UNCHANGED <<file, data, dataLock, mmap_lock, fileLock, freelist,
                   open_ro_txs, pc, tx, opened, committed, flock, bucket, ret>>

\* DBOpenOptions::open up to the call of Inner::open: a path that does not
\* exist is created by init_file, one that exists is opened.
DBOpenOptions_open(p) ==
    /\ opens[p].pc = "built"
    /\ IF path_exists(file)
       THEN /\ file' = file
            /\ opens' = [opens EXCEPT ![p].pc = "lock",
                                      ![p].held_at_call = HeldByOther(p)]
       ELSE /\ file' = init_file_sized(opens[p].page_size)
            /\ opens' = [opens EXCEPT ![p].pc = "lock",
                                      ![p].held_at_call = HeldByOther(p),
                                      ![p].effects = @ \cup {"created"}]
    /\ UNCHANGED <<data, dataLock, mmap_lock, fileLock, freelist,
                   open_ro_txs, pc, tx, opened, committed, flock, bucket, ret>>

\* inner.rs:28, file.lock_exclusive()?: returns once no other opener holds
\* the lock.
Inner_open_lock(p) ==
    /\ opens[p].pc = "lock"
    /\ flock = NoThread
    /\ flock' = p
    /\ opens' = [opens EXCEPT ![p].pc = "map",
                              ![p].effects = @ \cup {"locked"}]
    /\ UNCHANGED <<file, data, dataLock, mmap_lock, fileLock, freelist,
                   open_ro_txs, pc, tx, opened, committed, bucket, ret>>

\* inner.rs:30-56: the file is mapped, the meta selected and the freelist
\* loaded; a panic drops the file and with it the lock.
Inner_open_rest(p) ==
    /\ opens[p].pc = "map"
    /\ LET r == Inner_open(file, opens[p].page_size).result
       IN /\ opens' = [opens EXCEPT ![p].pc = "done",
                                    ![p].result = r,
                                    ![p].effects = @ \cup {"mapped"}]
          /\ flock' = IF r = "ok" THEN flock ELSE NoThread
    /\ UNCHANGED <<file, data, dataLock, mmap_lock, fileLock, freelist,
                   open_ro_txs, pc, tx, opened, committed, bucket, ret>>

\* Config::validate: the three checks of the segment size.
validate(segment_size) ==
    IF ~IsPowerOfTwo(segment_size) THEN "Unsupported"
    ELSE IF ~(segment_size >= 256) THEN "Unsupported"
    ELSE IF ~(segment_size <= 16777216) THEN "Unsupported"
    ELSE "ok"

\* Config::verify_config is todo!().
verify_config == "panic"

\* Config::try_lock: lock_exclusive under the two testing features,
\* try_lock_exclusive otherwise; any failure becomes Io.
try_lock(held, testing) ==
    IF testing
    THEN IF held THEN "blocks" ELSE "ok"
    ELSE IF held THEN "Io" ELSE "ok"

\* Config::open_file: the heap directory is created, then verify_config is
\* called; the file is opened and locked after it.
open_file(held, testing) ==
    IF verify_config # "ok"
    THEN [result |-> verify_config, effects |-> {"created"}]
    ELSE IF try_lock(held, testing) # "ok"
    THEN [result |-> try_lock(held, testing), effects |-> {"created"}]
    ELSE [result |-> "ok", effects |-> {"created", "locked"}]

\* Config::open: validate, then open_file, then the mapping.
Config_open(p, segment_size, testing) ==
    /\ opens[p].pc = "idle"
    /\ LET o == [NoOpen EXCEPT !.api = "Config",
                               !.segment_size = segment_size,
                               !.testing = testing,
                               !.held_at_call = HeldByOther(p),
                               !.pc = "done"]
           f == open_file(HeldByOther(p), testing)
       IN IF validate(segment_size) # "ok"
          THEN /\ opens' = [opens EXCEPT ![p] =
                              [o EXCEPT !.result = validate(segment_size)]]
               /\ flock' = flock
          ELSE IF f.result # "ok"
          THEN /\ opens' = [opens EXCEPT ![p] =
                              [o EXCEPT !.result = f.result,
                                        !.effects = f.effects]]
               /\ flock' = flock
          ELSE /\ opens' = [opens EXCEPT ![p] =
                              [o EXCEPT !.result = "ok",
                                        !.effects = f.effects \cup {"mapped"}]]
               /\ flock' = p
    /\ UNCHANGED <<file, data, dataLock, mmap_lock, fileLock, freelist,
                   open_ro_txs, pc, tx, opened, committed, bucket, ret>>

\* The caller is through with the outcome; a handle that is dropped closes
\* the file, which releases its lock.
DB_drop(p) ==
    /\ opens[p].pc = "done"
    /\ opens' = [opens EXCEPT ![p] = NoOpen]
    /\ flock' = IF flock = p THEN NoThread ELSE flock
    /\ UNCHANGED <<file, data, dataLock, mmap_lock, fileLock, freelist,
                   open_ro_txs, pc, tx, opened, committed, bucket, ret>>

InitOpen ==
    /\ file \in {NoFile, init_file}
    /\ data = mmap(init_file, 0)
    /\ dataLock = NoThread
    /\ mmap_lock = NoLock
    /\ fileLock = NoThread
    /\ freelist = Freelist_new
    /\ open_ro_txs = <<>>
    /\ pc = [t \in TwoThreads |-> "idle"]
    /\ tx = [t \in TwoThreads |-> NoTx]
    /\ opened = "none"
    /\ committed = NoGeneration
    /\ flock = NoThread
    /\ opens = [p \in Openers |-> NoOpen]
    /\ bucket = NoBucket
    /\ ret = NoRet

NextOpen ==
    \E p \in Openers :
        \/ \E ps \in RequestedPageSizes : DBOpenOptions_page_size(p, ps)
        \/ DBOpenOptions_open(p)
        \/ Inner_open_lock(p)
        \/ Inner_open_rest(p)
        \/ \E s \in RequestedSegmentSizes, testing \in BOOLEAN :
              Config_open(p, s, testing)
        \/ DB_drop(p)

SpecOpen == InitOpen /\ [][NextOpen]_vars

\* The opener has called open with a valid configuration on a file another
\* handle held locked.
OpenedLocked(p) ==
    /\ opens[p].pc \in {"lock", "map", "done"}
    /\ opens[p].held_at_call
    /\ opens[p].api = "Config" => validate(opens[p].segment_size) = "ok"

\* C19: an opener that has called open on a file another handle holds
\* locked is never waiting for the lock, and when its call has returned the
\* outcome is the Io error.
C19_LockedOpenReturnsIo ==
    \A p \in Openers :
        OpenedLocked(p) =>
           /\ ~(opens[p].pc = "lock" /\ HeldByOther(p)
                /\ ~ENABLED Inner_open_lock(p))
           /\ opens[p].pc = "done" => opens[p].result = "Io"

\* The configuration an opener asked for is outside the supported range.
OutOfRange(o) ==
    \/ /\ o.api = "DBOpenOptions"
       /\ o.page_size < 1024 \/ ~IsPowerOfTwo(o.page_size)
    \/ /\ o.api = "Config"
       /\ \/ ~IsPowerOfTwo(o.segment_size)
          \/ o.segment_size < 256
          \/ o.segment_size > 16777216

\* C20: an open asked for with a configuration outside the supported
\* range ends with the Unsupported error, and nothing has been created,
\* locked or mapped for it.
C20_UnsupportedBeforeEffects ==
    \A p \in Openers :
        (OutOfRange(opens[p]) /\ opens[p].pc \in {"lock", "map", "done"}) =>
           /\ opens[p].effects = {}
           /\ opens[p].pc = "done" => opens[p].result = "Unsupported"

\* ------------------------------------------------------------------------
\* SpecTree: the bucket tree of one writable transaction under put, delete,
\* get, create_bucket and bucket
\* ------------------------------------------------------------------------
\* Entries a leaf holds before a put splits it.
MaxLeafEntries == 2
\* Children a branch holds before a split of a child splits it.
MaxBranchChildren == 2

\* Keys are byte strings.
TreeKeys == {<<1>>, <<1, 2>>, <<2>>, <<2, 1>>}

\* Byte-lexicographic order: the first byte that differs decides, and a
\* proper prefix is the smaller.
RECURSIVE KeyLess(_, _)
KeyLess(a, b) ==
    IF b = <<>> THEN FALSE
    ELSE IF a = <<>> THEN TRUE
    ELSE IF Head(a) # Head(b) THEN Head(a) < Head(b)
    ELSE KeyLess(Tail(a), Tail(b))

\* A leaf entry: a plain value, or the BucketMeta of a sub-bucket.
ValueEntry(k, v) == [key |-> k, kind |-> "value", val |-> v]
BucketMeta == [root_page |-> 0, next_int |-> 0]
BucketEntry(k) == [key |-> k, kind |-> "bucket", val |-> BucketMeta]

Leaf(entries) == [leaf |-> TRUE, entries |-> entries]
Branch(keys, children) == [leaf |-> FALSE, keys |-> keys, children |-> children]

\* The root of an empty bucket is an empty leaf.
EmptyBucket == Leaf(<<>>)

\* The index of the entry of key k in a leaf's entries, 0 when there is none.
RECURSIVE IndexOf(_, _, _)
IndexOf(entries, k, i) ==
    IF i > Len(entries) THEN 0
    ELSE IF entries[i].key = k THEN i
    ELSE IndexOf(entries, k, i + 1)

\* The child of a branch whose range holds k: the one after the last
\* separator that is not above k.
ChildFor(keys, k) == 1 + Cardinality({i \in 1..Len(keys) : ~KeyLess(k, keys[i])})

\* The leaf entry of key k under node n, or none.
NoEntry == [key |-> <<>>, kind |-> "none", val |-> NoVal]

RECURSIVE Lookup(_, _)
Lookup(n, k) ==
    IF n.leaf
    THEN IF IndexOf(n.entries, k, 1) = 0 THEN NoEntry
         ELSE n.entries[IndexOf(n.entries, k, 1)]
    ELSE Lookup(n.children[ChildFor(n.keys, k)], k)

\* InsertSorted with the new entry put after the last one.
InsertSorted_append(entries, e) == Append(entries, e)

\* An entry of a new key goes to its place in the order of the keys.
RECURSIVE InsertSorted(_, _)
InsertSorted(entries, e) ==
    IF entries = <<>> THEN <<e>>
    ELSE IF KeyLess(e.key, Head(entries).key) THEN <<e>> \o entries
    ELSE <<Head(entries)>> \o InsertSorted(Tail(entries), e)

\* The outcome of an insertion below a node: the node, or the two halves of
\* its split with the separator that goes to the parent.
Whole(n) == [split |-> FALSE, node |-> n]
Halves(l, sep, r) == [split |-> TRUE, left |-> l, sep |-> sep, right |-> r]

\* A leaf over its capacity is split at its median key.
SplitLeaf(entries) ==
    IF Len(entries) <= MaxLeafEntries THEN Whole(Leaf(entries))
    ELSE LET h == Len(entries) \div 2 IN
         Halves(Leaf(SubSeq(entries, 1, h)),
                entries[h + 1].key,
                Leaf(SubSeq(entries, h + 1, Len(entries))))

\* A branch over its capacity is split at its median separator, which goes
\* to the parent.
SplitBranch(keys, children) ==
    IF Len(children) <= MaxBranchChildren THEN Whole(Branch(keys, children))
    ELSE LET h == (Len(children) + 1) \div 2 IN
         Halves(Branch(SubSeq(keys, 1, h - 1), SubSeq(children, 1, h)),
                keys[h],
                Branch(SubSeq(keys, h + 1, Len(keys)),
                       SubSeq(children, h + 1, Len(children))))

\* The entry e is written below node n: over the entry of its key, or at
\* its place in the leaf its key belongs to.
RECURSIVE InsertBelow(_, _)
InsertBelow(n, e) ==
    IF n.leaf
    THEN LET i == IndexOf(n.entries, e.key, 1) IN
         IF i # 0 THEN Whole(Leaf([n.entries EXCEPT ![i] = e]))
         ELSE SplitLeaf(InsertSorted(n.entries, e))
    ELSE LET c == ChildFor(n.keys, e.key)
             r == InsertBelow(n.children[c], e)
         IN IF ~r.split
            THEN Whole(Branch(n.keys, [n.children EXCEPT ![c] = r.node]))
            ELSE SplitBranch(
                    SubSeq(n.keys, 1, c - 1) \o <<r.sep>>
                        \o SubSeq(n.keys, c, Len(n.keys)),
                    SubSeq(n.children, 1, c - 1) \o <<r.left, r.right>>
                        \o SubSeq(n.children, c + 1, Len(n.children)))

\* The tree after e is written: a split of the root grows the tree by one
\* level.
InsertRoot(n, e) ==
    LET r == InsertBelow(n, e) IN
    IF r.split THEN Branch(<<r.sep>>, <<r.left, r.right>>) ELSE r.node

\* The entries without the one at index i.
RemoveAt(entries, i) ==
    SubSeq(entries, 1, i - 1) \o SubSeq(entries, i + 1, Len(entries))

\* The entry of key k is removed from its leaf; nothing is merged.
RECURSIVE RemoveBelow(_, _)
RemoveBelow(n, k) ==
    IF n.leaf
    THEN Leaf(RemoveAt(n.entries, IndexOf(n.entries, k, 1)))
    ELSE LET c == ChildFor(n.keys, k) IN
         Branch(n.keys, [n.children EXCEPT ![c] = RemoveBelow(@, k)])

\* The leaf entries of the tree in the order of an in-order traversal.
RECURSIVE InOrderFrom(_, _)
RECURSIVE InOrder(_)
InOrderFrom(children, i) ==
    IF i > Len(children) THEN <<>>
    ELSE InOrder(children[i]) \o InOrderFrom(children, i + 1)
InOrder(n) == IF n.leaf THEN n.entries ELSE InOrderFrom(n.children, 1)

\* The number of levels of the tree.
RECURSIVE Height(_)
Height(n) == IF n.leaf THEN 1 ELSE 1 + Height(n.children[1])

Returned(op, k, r) == [op |-> op, key |-> k, result |-> r]

\* Bucket::get
Bucket_get(k) ==
    /\ LET e == Lookup(bucket, k) IN
       ret' = Returned("get", k,
                       IF e.kind = "value" THEN e.val ELSE "KeyValueMissing")
    /\ UNCHANGED <<file, data, dataLock, mmap_lock, fileLock, freelist,
                   open_ro_txs, pc, tx, opened, committed, flock, opens,
                   bucket>>

\* Bucket::put: a key that holds a bucket is IncompatibleValue.
Bucket_put(k, v) ==
    /\ IF Lookup(bucket, k).kind = "bucket"
       THEN /\ ret' = Returned("put", k, "IncompatibleValue")
            /\ bucket' = bucket
       ELSE /\ ret' = Returned("put", k, "ok")
            /\ bucket' = InsertRoot(bucket, ValueEntry(k, v))
    /\ UNCHANGED <<file, data, dataLock, mmap_lock, fileLock, freelist,
                   open_ro_txs, pc, tx, opened, committed, flock, opens>>

\* Bucket::delete: a key that holds nothing is KeyValueMissing.
Bucket_delete(k) ==
    /\ IF Lookup(bucket, k).kind = "none"
       THEN /\ ret' = Returned("delete", k, "KeyValueMissing")
            /\ bucket' = bucket
       ELSE /\ ret' = Returned("delete", k, "ok")
            /\ bucket' = RemoveBelow(bucket, k)
    /\ UNCHANGED <<file, data, dataLock, mmap_lock, fileLock, freelist,
                   open_ro_txs, pc, tx, opened, committed, flock, opens>>

\* Bucket_create_bucket without the test of what the key holds.
Bucket_create_bucket_over(k) ==
    /\ ret' = Returned("create_bucket", k, "ok")
    /\ bucket' = InsertRoot(bucket, BucketEntry(k))
    /\ UNCHANGED <<file, data, dataLock, mmap_lock, fileLock, freelist,
                   open_ro_txs, pc, tx, opened, committed, flock, opens>>

\* Bucket::create_bucket: a key that holds a value or a bucket is
\* BucketExists.
Bucket_create_bucket(k) ==
    /\ IF Lookup(bucket, k).kind # "none"
       THEN /\ ret' = Returned("create_bucket", k, "BucketExists")
            /\ bucket' = bucket
       ELSE /\ ret' = Returned("create_bucket", k, "ok")
            /\ bucket' = InsertRoot(bucket, BucketEntry(k))
    /\ UNCHANGED <<file, data, dataLock, mmap_lock, fileLock, freelist,
                   open_ro_txs, pc, tx, opened, committed, flock, opens>>

\* Bucket::bucket: a key that holds nothing is BucketMissing, one that
\* holds a plain value is IncompatibleValue.
Bucket_bucket(k) ==
    /\ LET e == Lookup(bucket, k) IN
       ret' = Returned("bucket", k,
                       CASE e.kind = "none" -> "BucketMissing"
                         [] e.kind = "value" -> "IncompatibleValue"
                         [] OTHER -> "ok")
    /\ UNCHANGED <<file, data, dataLock, mmap_lock, fileLock, freelist,
                   open_ro_txs, pc, tx, opened, committed, flock, opens,
                   bucket>>

InitTree ==
    /\ file = init_file
    /\ data = mmap(init_file, 0)
    /\ dataLock = NoThread
    /\ mmap_lock = NoLock
    /\ fileLock = NoThread
    /\ freelist = Freelist_new
    /\ open_ro_txs = <<>>
    /\ pc = [t \in TwoThreads |-> "idle"]
    /\ tx = [t \in TwoThreads |-> NoTx]
    /\ opened = "none"
    /\ committed = NoGeneration
    /\ flock = NoThread
    /\ opens = NoOpens
    /\ bucket = EmptyBucket
    /\ ret = NoRet

NextTree ==
    \/ \E k \in TreeKeys : Bucket_get(k)
    \/ \E k \in TreeKeys, v \in Values : Bucket_put(k, v)
    \/ \E k \in TreeKeys : Bucket_delete(k)
    \/ \E k \in TreeKeys : Bucket_create_bucket(k)
    \/ \E k \in TreeKeys : Bucket_bucket(k)

SpecTree == InitTree /\ [][NextTree]_vars

\* The keys of a sequence of entries are strictly ascending.
StrictlyAscending(entries) ==
    \A i \in 1..(Len(entries) - 1) :
        KeyLess(entries[i].key, entries[i + 1].key)

\* C21: after any sequence of put and delete the in-order traversal of the
\* leaf entries is strictly ascending in the byte-lexicographic order of
\* the keys, so that no key occurs twice.
C21_TreeOrdered ==
    /\ StrictlyAscending(InOrder(bucket))
    /\ \A i, j \in 1..Len(InOrder(bucket)) :
          InOrder(bucket)[i].key = InOrder(bucket)[j].key => i = j

\* Leaves and a branch have split and a delete has emptied a leaf: the tree
\* has three levels and fewer entries than leaves.
C21_Witness ==
    /\ Height(bucket) = 3
    /\ ret.op = "delete" /\ ret.result = "ok"
    /\ Len(InOrder(bucket)) = 1

\* Within one transaction: a put of k makes get(k) its value, a delete of k
\* makes get(k) KeyValueMissing, and neither changes what any other key
\* holds.
RoundTripInTx ==
    [][\A k \in TreeKeys :
          /\ (ret'.op = "put" /\ ret'.key = k /\ ret'.result = "ok") =>
                \E v \in Values :
                   /\ bucket' = InsertRoot(bucket, ValueEntry(k, v))
                   /\ Lookup(bucket', k) = ValueEntry(k, v)
          /\ (ret'.op = "delete" /\ ret'.key = k /\ ret'.result = "ok") =>
                Lookup(bucket', k) = NoEntry
          /\ ret'.key # k => Lookup(bucket', k) = Lookup(bucket, k)]_vars

\* C22: a key that held a value when a read-only transaction began holds a
\* value on every get of that transaction: the one committed then or one
\* put over it since.  No operation of Spec deletes a key, so a key that
\* was put is never missing.
C22_RoundTrip ==
    \A r \in OpenReaders : \A k \in Keys :
        tx[r].view[k] # NoVal => get(r, k) \in Values

\* The entries of key k in the in-order traversal of the tree n.
EntriesOf(n, k) == {i \in 1..Len(InOrder(n)) : InOrder(n)[i].key = k}

\* C23: create_bucket on a key that holds a value or a bucket returns
\* BucketExists and leaves the tree as it was, and on a key that holds
\* nothing it makes the key hold a bucket; bucket returns BucketMissing for
\* a key that holds nothing and IncompatibleValue for one that holds a
\* plain value, and changes nothing; and after any step a key has at most
\* one entry, so never both a bucket and a plain value.
C23_BucketExclusive ==
    [][\A k \in TreeKeys :
          /\ (ret'.op = "create_bucket" /\ ret'.key = k) =>
                IF Lookup(bucket, k).kind # "none"
                THEN ret'.result = "BucketExists" /\ bucket' = bucket
                ELSE ret'.result = "ok" /\ Lookup(bucket', k) = BucketEntry(k)
          /\ (ret'.op = "bucket" /\ ret'.key = k) =>
                /\ bucket' = bucket
                /\ Lookup(bucket, k).kind = "none" <=>
                      ret'.result = "BucketMissing"
                /\ Lookup(bucket, k).kind = "value" <=>
                      ret'.result = "IncompatibleValue"
          /\ Cardinality(EntriesOf(bucket', k)) <= 1]_vars

\* create_bucket has failed on a key that holds a plain value, in a tree
\* that has split.
C23_Witness ==
    /\ ret.op = "create_bucket"
    /\ ret.result = "BucketExists"
    /\ Lookup(bucket, ret.key).kind = "value"
    /\ Height(bucket) > 1

\* How often id occurs in the registry, and how many open read-only
\* transactions carry it.
Registered(id) == Cardinality({i \in 1..Len(open_ro_txs) : open_ro_txs[i] = id})
OpenWith(id) == Cardinality({r \in OpenReaders : tx[r].meta.tx_id = id})

\* A step of thread t that opens a read-only transaction or ends one.
ReaderOpens(t) == ~tx[t].writable /\ pc[t] = "finish" /\ pc'[t] = "open"
ReaderEnds(t) == ~tx[t].writable /\ pc[t] = "open" /\ pc'[t] = "idle"

\* C24: in every state the registry holds the id of each open read-only
\* transaction, once for each transaction that carries it, and nothing
\* else; it changes only in the step that opens a read-only transaction,
\* which adds its id, and in the step that ends one, which removes it; no
\* step of a writable transaction changes it.
C24_RegistryExact ==
    /\ [](\A id \in 0..MaxTxId : Registered(id) = OpenWith(id))
    /\ [](Len(open_ro_txs) = Cardinality(OpenReaders))
    /\ [][\A t \in ThreeThreads :
             /\ ReaderOpens(t) =>
                   open_ro_txs' = Insert(open_ro_txs, tx[t].meta.tx_id)
             /\ ReaderEnds(t) =>
                   open_ro_txs' = Remove(open_ro_txs, tx[t].meta.tx_id)
             /\ (tx[t].writable /\ pc'[t] # pc[t]) =>
                   open_ro_txs' = open_ro_txs]_vars

\* Two read-only transactions of the same id are open while a writable
\* transaction of a later id is.
C24_Witness ==
    /\ Len(open_ro_txs) = 2
    /\ open_ro_txs[1] = open_ro_txs[2]
    /\ \E w \in ActiveWriters : tx[w].meta.tx_id > open_ro_txs[1] + 1

\* C25: no step makes the file shorter; the step that extends the file
\* leaves the mapping and the remap lock alone; and the step that swaps the
\* active mapping is taken by the thread that holds the remap lock in write
\* mode and the data mutex, with no thread holding the remap lock in read
\* mode, on a file that was extended before: the new mapping covers the
\* whole file and is longer than the old one.
C25_GrowthOrdering ==
    [][/\ FileLen(file') >= FileLen(file)
       /\ FileLen(file') > FileLen(file) =>
             data' = data /\ mmap_lock' = mmap_lock
       /\ data' # data =>
             /\ \E t \in ThreeThreads :
                   /\ mmap_lock.writer = t
                   /\ dataLock = t
                   /\ tx[t].writable
             /\ mmap_lock.held
             /\ mmap_lock.readers = {}
             /\ file' = file
             /\ data'.len = FileLen(file)
             /\ data'.len > data.len]_vars

\* The second growth of the file has been mapped and swapped in.
C25_Witness ==
    \E w \in ThreeThreads :
        /\ pc[w] = "rz_ret"
        /\ data.gen = 2
        /\ data.len = FileLen(file)

\* Both slots are valid and carry the same transaction id.
Tie ==
    /\ path_exists(file)
    /\ SlotValid(0)
    /\ SlotValid(1)
    /\ file[0].meta.tx_id = file[1].meta.tx_id

\* C26: with two valid slots of the same transaction id Inner::meta returns
\* the record of slot 1; the file init_file writes is such a file, its
\* current meta is the record of slot 1 and the slot the first commit
\* writes is slot 0.
C26_TieBreak ==
    /\ Tie => Inner_meta(file, PageSize) = Ok(file[1].meta)
    /\ OpenedNew =>
          /\ Tie
          /\ CurrentMeta = file[1].meta
          /\ CurrentMeta.meta_page = 1
          /\ NonCurrentSlot(CurrentMeta) = 0

\* A file whose two valid slots both carry the transaction id 2 was opened.
C26_Witness ==
    /\ Tie
    /\ opened = "ok"
    /\ file[0].meta.tx_id = 2
    /\ file[0].meta # file[1].meta

\* ------------------------------------------------------------------------
\* SpecLock: three threads in Tx::new, Inner::meta and Inner::resize, with
\* the ends of their transactions; threads that can run do run, the locks
\* are handed to those who keep asking, and transactions end
\* ------------------------------------------------------------------------
NextLock ==
    \E t \in ThreeThreads :
        \/ \E writable \in BOOLEAN : Tx_new_call(t, writable)
        \/ Tx_new_lock(t)
        \/ Tx_new_meta(t)
        \/ Tx_new_writer(t)
        \/ Tx_new_reader(t)
        \/ Tx_close(t)
        \/ Tx_rollback(t)
        \/ Inner_resize_allocate(t)
        \/ Inner_resize_request(t)
        \/ Inner_resize_write(t)
        \/ Inner_resize_data(t)
        \/ Inner_resize_swap(t)
        \/ Inner_resize_return(t)

\* The steps of thread t inside a call of Tx::new or Inner::resize.
CallStep(t) ==
    \/ Tx_new_lock(t)
    \/ Tx_new_meta(t)
    \/ Tx_new_writer(t)
    \/ Tx_new_reader(t)
    \/ Inner_resize_request(t)
    \/ Inner_resize_write(t)
    \/ Inner_resize_data(t)
    \/ Inner_resize_swap(t)
    \/ Inner_resize_return(t)

\* The end of t's transaction.
EndStep(t) == Tx_close(t) \/ Tx_rollback(t)

SpecLock ==
    /\ InitConc
    /\ [][NextLock]_vars
    /\ \A t \in ThreeThreads : SF_vars(CallStep(t)) /\ WF_vars(EndStep(t))

\* The threads t waits for: the holder of the lock its call is at.
WaitsFor(t) ==
    CASE pc[t] = "lock" /\ tx[t].writable ->
            {fileLock} \ {NoThread}
      [] pc[t] = "lock" /\ ~tx[t].writable ->
            {mmap_lock.writer} \ {NoThread}
      [] pc[t] \in {"meta", "finish", "rz_data"} ->
            {dataLock} \ {NoThread}
      [] pc[t] = "rz_write" ->
            {mmap_lock.writer} \ {NoThread}
      [] pc[t] = "rz_wait" ->
            mmap_lock.readers
      [] OTHER -> {}

\* The thread is inside a call of Tx::new or Inner::resize.
InCall(t) ==
    pc[t] \in {"lock", "meta", "finish", "rz_write", "rz_wait", "rz_data",
               "rz_map", "rz_ret"}

\* No set of threads is such that each of them waits for one of them.
NoWaitCycle ==
    \A S \in (SUBSET ThreeThreads) \ {{}} :
        \E t \in S : WaitsFor(t) \cap S = {}

\* C27: no set of threads wait on each other; a thread inside a call that
\* waits for no one can take its next step; every call of Tx::new returns,
\* provided the transactions that are open end; and every
\* Inner::resize, requested with read-only transactions open or not,
\* returns.
C27_DeadlockFree ==
    /\ [](NoWaitCycle)
    /\ [](\A t \in ThreeThreads :
             (InCall(t) /\ WaitsFor(t) = {}) => ENABLED CallStep(t))
    /\ \A t \in ThreeThreads :
          /\ (pc[t] \in {"lock", "meta", "finish"}) ~> (pc[t] = "open")
          /\ (pc[t] \in {"rz_write", "rz_wait", "rz_data", "rz_map", "rz_ret"})
                ~> (pc[t] = "open")

\* Inner::resize waits for a read-only transaction that is open, and the
\* third thread waits in Tx::new(false) for the resize.
C27_Witness ==
    \E w, r, n \in ThreeThreads :
        /\ pc[w] = "rz_wait"
        /\ r \in OpenReaders
        /\ pc[n] = "lock" /\ ~tx[n].writable
        /\ WaitsFor(w) = {r}
        /\ WaitsFor(n) = {w}

\* ------------------------------------------------------------------------
\* SpecLoad: open on a file whose two meta records refer to freelist pages
\* of their own, each with a count and a payload that may be longer
\* ------------------------------------------------------------------------
\* The number of pages of the file.
LoadPages == 7

\* The pages a meta record may name as its freelist page.
LoadFreelistPages == {InitFreelistPage, 4}

\* The page ids a freelist page may carry.
LoadIds == 5..(LoadPages - 1)

\* The meta records of slot i: a valid one for each freelist page and
\* transaction id, and one whose hash does not match.
LoadMetas(i) ==
    {[m EXCEPT !.hash = hash_self(m)] :
        m \in {[InitMeta(i) EXCEPT !.freelist_page = fp, !.tx_id = x,
                                   !.num_pages = LoadPages] :
                 fp \in LoadFreelistPages, x \in 0..MaxTxId}}
    \cup {[InitMeta(i) EXCEPT !.hash = ZeroHash]}

\* A freelist page as it lies in the file: count ids, and behind them what
\* an earlier use of the page left.
LoadFreelists(id) ==
    {[FreelistPage(id, ids) EXCEPT !.count = c] :
        ids \in SUBSET LoadIds, c \in 0..Cardinality(LoadIds)}

\* A page that is named as a freelist page: a freelist page, or a leaf.
LoadPagesAt(id) ==
    {pg \in LoadFreelists(id) : pg.count <= Cardinality(pg.ids)}
    \cup {LeafPage(id, EmptyLeaf)}

InitLoad ==
    /\ \E m0 \in LoadMetas(0), m1 \in LoadMetas(1),
          f2 \in LoadPagesAt(InitFreelistPage), f4 \in LoadPagesAt(4) :
          file = [p \in 0..(LoadPages - 1) |->
                    CASE p = 0 -> MetaPage(1, m0)
                      [] p = 1 -> MetaPage(1, m1)
                      [] p = InitFreelistPage -> f2
                      [] p = 4 -> f4
                      [] OTHER -> LeafPage(p, EmptyLeaf)]
    /\ data = mmap(file, 0)
    /\ dataLock = NoThread
    /\ mmap_lock = NoLock
    /\ fileLock = NoThread
    /\ freelist = Freelist_new
    /\ open_ro_txs = <<>>
    /\ pc = [t \in TwoThreads |-> "idle"]
    /\ tx = [t \in TwoThreads |-> NoTx]
    /\ opened = "none"
    /\ committed = NoGeneration
    /\ flock = NoThread
    /\ opens = NoOpens
    /\ bucket = NoBucket
    /\ ret = NoRet

NextLoad == OpenExisting

SpecLoad == InitLoad /\ [][NextLoad]_vars

\* The freelist page the current meta refers to.
CurrentFreelistPage == file[CurrentMeta.freelist_page]

\* C28: after Inner::open has succeeded, free_pages holds exactly the ids
\* the freelist page of the current meta stores, which are its first count
\* ids and none when its count is 0, and pending_pages is empty.
C28_FreelistLoaded ==
    opened = "ok" =>
        /\ \A id \in 0..MaxPages :
              id \in freelist.free_pages <=>
                  /\ id \in CurrentFreelistPage.ids
                  /\ Cardinality({j \in CurrentFreelistPage.ids : j < id})
                        < CurrentFreelistPage.count
        /\ freelist.free_pages \subseteq 0..MaxPages
        /\ CurrentFreelistPage.count = 0 => freelist.free_pages = {}
        /\ \A i \in TxIds : freelist.pending_pages[i] = <<>>

\* Open succeeded on a file whose two valid meta records name different
\* freelist pages; the page of the current one stores one id and has a
\* second one behind it, the page of the other one stores something else.
C28_Witness ==
    /\ opened = "ok"
    /\ valid(file[0].meta) /\ valid(file[1].meta)
    /\ file[0].meta.freelist_page # file[1].meta.freelist_page
    /\ file[0].meta.tx_id > file[1].meta.tx_id
    /\ CurrentFreelistPage.count = 1
    /\ Cardinality(CurrentFreelistPage.ids) = 2
    /\ Cardinality(freelist.free_pages) = 1
    /\ Page_freelist(file[file[1].meta.freelist_page]) # freelist.free_pages

====
